---- MODULE Spec2Model ----
(***************************************************************************)
(* Model of src/src/components/connect.js: one Connect instance of a       *)
(* connect()-wrapped component, its store and its React host.              *)
(*                                                                         *)
(* Objects (props, stateProps, ...) are total maps from Keys to a value or *)
(* Absent; null is the map NullObj.  Store states are references           *)
(* 0..MaxStoreRef, compared by identity.  A rendered element is            *)
(* represented by the props handed to createElement; whether a render pass *)
(* returned a fresh element or the previous one is recorded in renderOut.  *)
(* Thrown values are Error objects (truthy), identified by an integer.     *)
(***************************************************************************)
EXTENDS Integers, Sequences, FiniteSets, TLC

\* ---- bounds -------------------------------------------------------------
MaxStoreRef == 2
MaxId == 2

\* ---- values -------------------------------------------------------------
Keys == {"id", "count", "sel", "dispatch", "act"}
Absent == -1
NullMark == -2
NoError == -1
NoState == -1
DispatchRef == 100
ActRef == 200
ErrBase == 50
OwnCount == 7

NullObj == [k \in Keys |-> NullMark]
EmptyObj == [k \in Keys |-> Absent]
IsNull(o) == o = NullObj
KeysOf(o) == {k \in Keys : o[k] # Absent}

\* { ...a, ...b }
Overlay(a, b) == [k \in Keys |-> IF b[k] # Absent THEN b[k] ELSE a[k]]

\* utils/shallowEqual: same key set, identical value per key
shallowEqual(a, b) ==
  /\ Cardinality(KeysOf(a)) = Cardinality(KeysOf(b))
  /\ \A k \in KeysOf(a) : k \in KeysOf(b) /\ a[k] = b[k]

StoreRefs == 0..MaxStoreRef
OwnPropsSet ==
  {[EmptyObj EXCEPT !["id"] = v] : v \in 1..MaxId}
    \cup {[EmptyObj EXCEPT !["id"] = 1, !["count"] = OwnCount]}

\* ---- configuration of connect(mapStateToProps, mapDispatchToProps, ------
\* ---- mergeProps, options) ----------------------------------------------
MapStateKinds == {"none", "arity1", "arity2", "factory1", "factory2"}
MapDispatchKinds == {"none", "arity1", "arity2", "factory2"}
MergeKinds == {"default", "custom"}
Configs ==
  {c \in [pure : BOOLEAN, mapState : MapStateKinds, throws : BOOLEAN,
          mapDispatch : MapDispatchKinds, merge : MergeKinds] :
     /\ c.throws => c.mapState # "none" /\ c.mapDispatch = "none" /\ c.merge = "default"
     /\ c.mapDispatch # "none" => c.merge = "default"}

VARIABLES
  cfg,          \* the arguments of connect(), fixed for the instance
  store,        \* store.getState(): the store's current state reference
  inflight,     \* the store is about to call the listener it got from subscribe
  inst,         \* the fields of the Connect instance
  pendingState, \* storeState of a setState() the host has not applied yet
  phase,        \* "constructed", "rendered", "mounted", "unmounted", "aborted"
  lastOp,       \* the operation that ran last
  calls,        \* mapping / merge invocations made by the last operation
  renderOut,    \* last operation's render(): "none", "new", "same", "threw"
  thrown,       \* what the last operation threw: kind and error
  updateRequested, \* the last operation called setState
  afterRender,  \* the operation before the last was a render pass that returned
  observed,     \* the store state the instance last got from store.getState()
  subscribeCalls,  \* number of store.subscribe calls
  unsubscribeCalls, \* number of calls of the unsubscribe function
  mergeArgs,    \* two argument triples for the default merge function
  mergeRets     \* what the default merge function returned for the two

vars == <<cfg, store, inflight, inst, pendingState, phase, lastOp, calls,
          renderOut, thrown, updateRequested, afterRender, observed,
          subscribeCalls, unsubscribeCalls, mergeArgs, mergeRets>>

\* const version = nextVersion++ of the one connect() call
version == 0

shouldSubscribe == cfg.mapState # "none"
pure == cfg.pure
checkMergedEquals == pure /\ cfg.merge # "default"

\* ---- the user's mapping functions ---------------------------------------
IsFactory(kind) == kind \in {"factory1", "factory2"}

\* Function.length of the raw ("raw") or factory-made ("inner") state mapping
StateArity(target) ==
  IF target = "raw"
    THEN (IF cfg.mapState = "arity2" THEN 2 ELSE 1)
    ELSE (IF cfg.mapState = "factory2" THEN 2 ELSE 1)

\* Function.length of the raw or factory-made dispatch mapping
DispatchArity(target) ==
  IF target = "raw"
    THEN (IF cfg.mapDispatch = "arity2" THEN 2 ELSE 1)
    ELSE (IF cfg.mapDispatch = "factory2" THEN 2 ELSE 1)

\* the state reference on which a throwing state mapping throws
BadRef == 1
ErrorOf(s) == ErrBase + s
Throws(s) == cfg.throws /\ cfg.mapState # "none" /\ s = BadRef

\* the object a state mapping of the given arity computes
StateObj(arity, s, p) ==
  IF arity = 2
    THEN [EmptyObj EXCEPT !["count"] = s \div 2, !["sel"] = p["id"]]
    ELSE [EmptyObj EXCEPT !["count"] = s \div 2]

defaultMapStateToProps(s) == EmptyObj
\* a default dispatch mapping that returns an empty object
defaultMapDispatchEmpty(d) == EmptyObj

defaultMapDispatchToProps(d) == [EmptyObj EXCEPT !["dispatch"] = d]
defaultMergeProps(stateProps, dispatchProps, parentProps) ==
  Overlay(Overlay(parentProps, stateProps), dispatchProps)

\* a user merge function that leaves the own "id" out of the result
customMergeProps(stateProps, dispatchProps, parentProps) ==
  [Overlay(Overlay(parentProps, stateProps), dispatchProps) EXCEPT !["id"] = Absent]

finalMergeProps(stateProps, dispatchProps, parentProps) ==
  IF cfg.merge = "default"
    THEN defaultMergeProps(stateProps, dispatchProps, parentProps)
    ELSE customMergeProps(stateProps, dispatchProps, parentProps)

\* one entry of the invocation log: the function, which of the user's
\* functions it is ("raw": the one given to connect, "inner": the one a
\* factory returned), the number of arguments and the second argument
Call(fn, target, nargs, arg2) ==
  [fn |-> fn, target |-> target, nargs |-> nargs, arg2 |-> arg2]

\* the invocation log cs holds a call of fn
Invoked(cs, fn) == \E n \in 1..Len(cs) : cs[n].fn = fn

computeMergedProps(stateProps, dispatchProps, parentProps) ==
  [ret |-> finalMergeProps(stateProps, dispatchProps, parentProps),
   calls |-> <<Call("merge", "raw", 3, parentProps)>>]

\* ---- results of the instance's methods: the instance after the call, ----
\* ---- the returned value, the invocations made, the error thrown ---------
Result(i, ret, cs, err) == [i |-> i, ret |-> ret, calls |-> cs, err |-> err]

\* the second argument a resolved mapping is invoked with
SecondArg(i, depends) == IF depends = "yes" THEN i.props ELSE NullObj
ArgCount(depends) == IF depends = "yes" THEN 2 ELSE 1

\* what the state mapping `target` returns for (store state, arg2)
MapStateValue(target, arg2) ==
  IF cfg.mapState = "none"
    THEN defaultMapStateToProps(store)
    ELSE StateObj(StateArity(target), store, arg2)

\* lines 122-131: invoke the resolved state mapping
InvokeFinalMapState(i) ==
  Result(i,
         IF Throws(store)
           THEN NullObj
           ELSE MapStateValue(i.finalMapStateToProps,
                              SecondArg(i, i.doStatePropsDependOnOwnProps)),
         <<Call("mapState", i.finalMapStateToProps,
                ArgCount(i.doStatePropsDependOnOwnProps),
                SecondArg(i, i.doStatePropsDependOnOwnProps))>>,
         IF Throws(store) THEN ErrorOf(store) ELSE NoError)

\* InstallMapState that takes every resolved mapping to depend on own props
InstallMapStateAlwaysDepends(i, final) ==
  [i EXCEPT !.finalMapStateToProps = final,
            !.doStatePropsDependOnOwnProps = "yes"]

\* lines 141-144: record the resolved mapping and whether it depends on own props
InstallMapState(i, final) ==
  [i EXCEPT !.finalMapStateToProps = final,
            !.doStatePropsDependOnOwnProps =
               IF StateArity(final) # 1 THEN "yes" ELSE "no"]

\* prepend the configuring invocation to the invocations of r
AfterRawCall(c, r) == Result(r.i, r.ret, <<c>> \o r.calls, r.err)

\* lines 137-154
configureFinalMapState(i) ==
  IF IsFactory(cfg.mapState)
    THEN AfterRawCall(Call("mapState", "raw", 2, i.props),
                      InvokeFinalMapState(InstallMapState(i, "inner")))
    ELSE IF Throws(store)
      THEN Result(i, NullObj, <<Call("mapState", "raw", 2, i.props)>>, ErrorOf(store))
      ELSE Result(InstallMapState(i, "raw"), MapStateValue("raw", i.props),
                  <<Call("mapState", "raw", 2, i.props)>>, NoError)

\* computeStateProps that configures the mapping on every call
computeStatePropsAlwaysConfigure(i) == configureFinalMapState(i)

\* lines 113-132
computeStateProps(i) ==
  IF i.finalMapStateToProps = "null"
    THEN configureFinalMapState(i)
    ELSE InvokeFinalMapState(i)

\* the object a dispatch mapping computes
DispatchObj(d, p) ==
  CASE cfg.mapDispatch = "none" -> defaultMapDispatchToProps(d)
    [] cfg.mapDispatch = "arity1" -> [EmptyObj EXCEPT !["act"] = ActRef]
    [] OTHER -> [EmptyObj EXCEPT !["act"] = ActRef + p["id"]]

\* lines 161-169: invoke the resolved dispatch mapping
InvokeFinalMapDispatch(i) ==
  Result(i,
         DispatchObj(DispatchRef, SecondArg(i, i.doDispatchPropsDependOnOwnProps)),
         <<Call("mapDispatch", i.finalMapDispatchToProps,
                ArgCount(i.doDispatchPropsDependOnOwnProps),
                SecondArg(i, i.doDispatchPropsDependOnOwnProps))>>,
         NoError)

\* lines 177-178
InstallMapDispatch(i, final) ==
  [i EXCEPT !.finalMapDispatchToProps = final,
            !.doDispatchPropsDependOnOwnProps =
               IF DispatchArity(final) # 1 THEN "yes" ELSE "no"]

\* lines 173-188
configureFinalMapDispatch(i) ==
  IF IsFactory(cfg.mapDispatch)
    THEN AfterRawCall(Call("mapDispatch", "raw", 2, i.props),
                      InvokeFinalMapDispatch(InstallMapDispatch(i, "inner")))
    ELSE Result(InstallMapDispatch(i, "raw"), DispatchObj(DispatchRef, i.props),
                <<Call("mapDispatch", "raw", 2, i.props)>>, NoError)

\* lines 156-170
computeDispatchProps(i) ==
  IF i.finalMapDispatchToProps = "null"
    THEN configureFinalMapDispatch(i)
    ELSE InvokeFinalMapDispatch(i)

\* StoreStateProps without the shallow comparison
StoreStatePropsAlways(r) ==
  IF r.err # NoError
    THEN Result(r.i, FALSE, r.calls, r.err)
    ELSE Result([r.i EXCEPT !.stateProps = r.ret], TRUE, r.calls, NoError)

\* lines 195-200, r being the outcome of computeStateProps
StoreStateProps(r) ==
  IF r.err # NoError
    THEN Result(r.i, FALSE, r.calls, r.err)
    ELSE IF ~IsNull(r.i.stateProps) /\ shallowEqual(r.ret, r.i.stateProps)
           THEN Result(r.i, FALSE, r.calls, NoError)
           ELSE Result([r.i EXCEPT !.stateProps = r.ret], TRUE, r.calls, NoError)

\* lines 193-201; ret: whether stateProps changed
updateStatePropsIfNeeded(i) == StoreStateProps(computeStateProps(i))

\* lines 205-210, r being the outcome of computeDispatchProps
StoreDispatchProps(r) ==
  IF ~IsNull(r.i.dispatchProps) /\ shallowEqual(r.ret, r.i.dispatchProps)
    THEN Result(r.i, FALSE, r.calls, NoError)
    ELSE Result([r.i EXCEPT !.dispatchProps = r.ret], TRUE, r.calls, NoError)

\* lines 203-211
updateDispatchPropsIfNeeded(i) == StoreDispatchProps(computeDispatchProps(i))

\* lines 218-223, r being the outcome of computeMergedProps
StoreMergedProps(i, r) ==
  IF ~IsNull(i.mergedProps) /\ checkMergedEquals /\ shallowEqual(r.ret, i.mergedProps)
    THEN Result(i, FALSE, r.calls, NoError)
    ELSE Result([i EXCEPT !.mergedProps = r.ret], TRUE, r.calls, NoError)

\* lines 213-224
updateMergedPropsIfNeeded(i) ==
  StoreMergedProps(i, computeMergedProps(i.stateProps, i.dispatchProps, i.props))

\* clearCache that leaves the three cached objects as they are
clearCacheKeepProps(i) ==
  [i EXCEPT !.haveOwnPropsChanged = TRUE,
            !.hasStoreStateChanged = TRUE,
            !.haveStatePropsBeenPrecalculated = FALSE,
            !.statePropsPrecalculationError = NoError,
            !.renderedElement = NullObj,
            !.finalMapDispatchToProps = "null",
            !.finalMapStateToProps = "null"]

\* lines 268-283
clearCache(i) ==
  [i EXCEPT !.dispatchProps = NullObj,
            !.stateProps = NullObj,
            !.mergedProps = NullObj,
            !.haveOwnPropsChanged = TRUE,
            !.hasStoreStateChanged = TRUE,
            !.haveStatePropsBeenPrecalculated = FALSE,
            !.statePropsPrecalculationError = NoError,
            !.renderedElement = NullObj,
            !.finalMapDispatchToProps = "null",
            !.finalMapStateToProps = "null"]

\* ResetFlags that leaves haveOwnPropsChanged as it is
ResetFlagsKeepOwn(i) ==
  [i EXCEPT !.hasStoreStateChanged = FALSE,
            !.haveStatePropsBeenPrecalculated = FALSE,
            !.statePropsPrecalculationError = NoError]

\* ResetFlags that leaves the deferred error recorded
ResetFlagsKeepError(i) ==
  [i EXCEPT !.haveOwnPropsChanged = FALSE,
            !.hasStoreStateChanged = FALSE,
            !.haveStatePropsBeenPrecalculated = FALSE]

\* lines 348-351: the dirty flags are reset once they are read
ResetFlags(i) ==
  [i EXCEPT !.haveOwnPropsChanged = FALSE,
            !.hasStoreStateChanged = FALSE,
            !.haveStatePropsBeenPrecalculated = FALSE,
            !.statePropsPrecalculationError = NoError]

\* shouldUpdateStateProps that ignores doStatePropsDependOnOwnProps
shouldUpdateStatePropsOnOwnProps(i) ==
  IF pure /\ ~IsNull(i.renderedElement)
    THEN i.hasStoreStateChanged \/ i.haveOwnPropsChanged
    ELSE TRUE

\* lines 359-370
shouldUpdateStateProps(i) ==
  IF pure /\ ~IsNull(i.renderedElement)
    THEN i.hasStoreStateChanged
           \/ (i.haveOwnPropsChanged /\ i.doStatePropsDependOnOwnProps = "yes")
    ELSE TRUE

\* shouldUpdateDispatchProps that ignores doDispatchPropsDependOnOwnProps
shouldUpdateDispatchPropsOnOwnProps(i) ==
  IF pure /\ ~IsNull(i.renderedElement)
    THEN i.haveOwnPropsChanged
    ELSE TRUE

\* lines 360-369
shouldUpdateDispatchProps(i) ==
  IF pure /\ ~IsNull(i.renderedElement)
    THEN i.haveOwnPropsChanged /\ i.doDispatchPropsDependOnOwnProps = "yes"
    ELSE TRUE

Unchanged(i) == Result(i, FALSE, <<>>, NoError)

RenderResult(i, out, kind, err, cs) ==
  [i |-> i, out |-> out, kind |-> kind, err |-> err, calls |-> cs]

\* lines 398-419: return the previous element, or create and return a new one
FinishRender(rm, cs) ==
  IF ~rm.ret /\ ~IsNull(rm.i.renderedElement)
    THEN RenderResult(rm.i, "same", "none", NoError, cs \o rm.calls)
    ELSE RenderResult([rm.i EXCEPT !.renderedElement = rm.i.mergedProps],
                      "new", "none", NoError, cs \o rm.calls)

\* lines 386-396, rd being the outcome of the dispatchProps step
RenderMerged(haveOwnPropsChanged, haveStatePropsChanged, rd, cs) ==
  FinishRender(IF haveStatePropsChanged \/ rd.ret \/ haveOwnPropsChanged
                 THEN updateMergedPropsIfNeeded(rd.i)
                 ELSE Unchanged(rd.i),
               cs \o rd.calls)

\* lines 381-384, rs being the outcome of the stateProps step
RenderDispatch(i0, rs) ==
  IF rs.err # NoError
    THEN RenderResult(rs.i, "threw", "mapping", rs.err, rs.calls)
    ELSE RenderMerged(i0.haveOwnPropsChanged, rs.ret,
                      IF shouldUpdateDispatchProps(i0)
                        THEN updateDispatchPropsIfNeeded(rs.i)
                        ELSE Unchanged(rs.i),
                      rs.calls)

\* lines 373-379, i0 holding the flags as read and i the instance with them reset
RenderState(i0, i) ==
  RenderDispatch(i0,
    IF i0.haveStatePropsBeenPrecalculated
      THEN Result(i, TRUE, <<>>, NoError)
      ELSE IF shouldUpdateStateProps(i0)
             THEN updateStatePropsIfNeeded(i)
             ELSE Unchanged(i))

\* lines 338-420
render(i0) ==
  IF i0.statePropsPrecalculationError # NoError
    THEN RenderResult(ResetFlags(i0), "threw", "deferred",
                      i0.statePropsPrecalculationError, <<>>)
    ELSE RenderState(i0, ResetFlags(i0))

HandlerResult(i, setState, cs) == [i |-> i, setState |-> setState, calls |-> cs]

\* AfterPrecalculation that does not keep the caught error
AfterPrecalculationDropError(r) ==
  IF r.err = NoError /\ ~r.ret
    THEN HandlerResult(r.i, NoState, r.calls)
    ELSE HandlerResult(
           [r.i EXCEPT !.haveStatePropsBeenPrecalculated = TRUE,
                       !.hasStoreStateChanged = TRUE],
           store, r.calls)

\* lines 309-323, r being what tryCatch(updateStatePropsIfNeeded) produced
AfterPrecalculation(r) ==
  IF r.err = NoError /\ ~r.ret
    THEN HandlerResult(r.i, NoState, r.calls)
    ELSE HandlerResult(
           [r.i EXCEPT !.statePropsPrecalculationError =
                          IF r.err # NoError THEN r.err ELSE @,
                       !.haveStatePropsBeenPrecalculated = TRUE,
                       !.hasStoreStateChanged = TRUE],
           store, r.calls)

\* handleChange without the test of this.unsubscribe
handleChangeUnguarded(i) ==
  IF pure /\ i.storeState = store
    THEN HandlerResult(i, NoState, <<>>)
    ELSE IF pure /\ i.doStatePropsDependOnOwnProps # "yes"
      THEN AfterPrecalculation(updateStatePropsIfNeeded(i))
      ELSE HandlerResult([i EXCEPT !.hasStoreStateChanged = TRUE], store, <<>>)

\* handleChange without the comparison of the store state references
handleChangeNoReferenceTest(i) ==
  IF ~i.unsubscribe
    THEN HandlerResult(i, NoState, <<>>)
    ELSE IF pure /\ i.doStatePropsDependOnOwnProps # "yes"
      THEN AfterPrecalculation(updateStatePropsIfNeeded(i))
      ELSE HandlerResult([i EXCEPT !.hasStoreStateChanged = TRUE], store, <<>>)

\* lines 288-324; setState: the storeState handed to setState, or NoState
handleChange(i) ==
  IF ~i.unsubscribe
    THEN HandlerResult(i, NoState, <<>>)
    ELSE IF pure /\ i.storeState = store
      THEN HandlerResult(i, NoState, <<>>)
      ELSE IF pure /\ i.doStatePropsDependOnOwnProps # "yes"
        THEN AfterPrecalculation(updateStatePropsIfNeeded(i))
        ELSE HandlerResult([i EXCEPT !.hasStoreStateChanged = TRUE], store, <<>>)

\* trySubscribe that subscribes whether or not a state mapping was given
trySubscribeAlways(i) ==
  IF ~i.unsubscribe
    THEN handleChange([i EXCEPT !.unsubscribe = TRUE])
    ELSE HandlerResult(i, NoState, <<>>)

\* lines 232-237; the listener is called once right after subscribing
trySubscribe(i) ==
  IF shouldSubscribe /\ ~i.unsubscribe
    THEN handleChange([i EXCEPT !.unsubscribe = TRUE])
    ELSE HandlerResult(i, NoState, <<>>)

\* tryUnsubscribe that keeps the handle after calling it
tryUnsubscribeKeepHandle(i) == i

\* lines 240-245
tryUnsubscribe(i) == IF i.unsubscribe THEN [i EXCEPT !.unsubscribe = FALSE] ELSE i

\* lines 254-260
componentWillReceiveProps(i, nextProps) ==
  IF ~pure \/ ~shallowEqual(nextProps, i.props)
    THEN [i EXCEPT !.haveOwnPropsChanged = TRUE]
    ELSE i

\* lines 86-88
shouldComponentUpdate(i) ==
  ~pure \/ i.haveOwnPropsChanged \/ i.hasStoreStateChanged

\* lines 433-442: outside a hot reload the instance's version is the closure's
componentWillUpdate(i) ==
  IF i.version = version
    THEN i
    ELSE clearCache(trySubscribe([i EXCEPT !.version = version]).i)

\* lines 263-266
componentWillUnmount(i) == clearCache(tryUnsubscribe(i))

\* lines 92-109
constructor(props, storeState) ==
  clearCache([props |-> props,
              storeState |-> storeState,
              version |-> version,
              unsubscribe |-> FALSE,
              doStatePropsDependOnOwnProps |-> "undefined",
              doDispatchPropsDependOnOwnProps |-> "undefined",
              dispatchProps |-> NullObj,
              stateProps |-> NullObj,
              mergedProps |-> NullObj,
              haveOwnPropsChanged |-> FALSE,
              hasStoreStateChanged |-> FALSE,
              haveStatePropsBeenPrecalculated |-> FALSE,
              statePropsPrecalculationError |-> NoError,
              renderedElement |-> NullObj,
              finalMapDispatchToProps |-> "null",
              finalMapStateToProps |-> "null"])

\* ---- the state machine --------------------------------------------------
NoThrow == [kind |-> "none", err |-> NoError]

Init ==
  /\ cfg \in Configs
  /\ store \in StoreRefs
  /\ \E p \in OwnPropsSet : inst = constructor(p, store)
  /\ inflight = FALSE
  /\ pendingState = NoState
  /\ phase = "constructed"
  /\ lastOp = "construct"
  /\ calls = <<>>
  /\ renderOut = "none"
  /\ thrown = NoThrow
  /\ updateRequested = FALSE
  /\ afterRender = FALSE
  /\ observed = store
  /\ subscribeCalls = 0
  /\ unsubscribeCalls = 0
  /\ mergeArgs = <<>>
  /\ mergeRets = <<>>

\* the host applies a pending setState to this.state
ApplyState(i) ==
  IF pendingState # NoState THEN [i EXCEPT !.storeState = pendingState] ELSE i

\* the operations that run render()
AnyRenderOps == {"firstRender", "receiveProps", "flushState", "forceUpdate"}

\* the last operation was a render pass that returned an element
ReturnedOutput == lastOp \in AnyRenderOps /\ renderOut \in {"new", "same"}

\* the history of a render pass
RenderHistory(op, r) ==
  /\ afterRender' = ReturnedOutput
  /\ lastOp' = op
  /\ calls' = r.calls
  /\ renderOut' = r.out
  /\ thrown' = [kind |-> r.kind, err |-> r.err]
  /\ updateRequested' = FALSE

\* the history of an operation that does not render
PlainHistory(op, cs, requested) ==
  /\ afterRender' = ReturnedOutput
  /\ lastOp' = op
  /\ calls' = cs
  /\ renderOut' = "none"
  /\ thrown' = NoThrow
  /\ updateRequested' = requested

\* the store's state becomes s (possibly the reference it already is); the
\* store will call the listener if it holds one
StoreDispatch(s) ==
  /\ store' = s
  /\ inflight' = (inflight \/ inst.unsubscribe)
  /\ PlainHistory("dispatch", <<>>, FALSE)
  /\ UNCHANGED <<cfg, inst, pendingState, phase, observed, subscribeCalls,
                 unsubscribeCalls, mergeArgs, mergeRets>>

\* the effect of a handler outcome r on the instance and the setState queue
Handled(op, r) ==
  /\ inst' = r.i
  /\ pendingState' = IF r.setState # NoState THEN r.setState ELSE pendingState
  /\ PlainHistory(op, r.calls, r.setState # NoState)

\* the effect of a render outcome r
Rendered(op, r) ==
  /\ inst' = r.i
  /\ observed' = IF Invoked(r.calls, "mapState") THEN store ELSE observed
  /\ RenderHistory(op, r)

\* the store calls the listener
Notify ==
  /\ inflight
  /\ Handled("notify", handleChange(inst))
  /\ inflight' = FALSE
  /\ observed' = IF inst.unsubscribe THEN store ELSE observed
  /\ UNCHANGED <<cfg, store, phase, subscribeCalls, unsubscribeCalls,
                 mergeArgs, mergeRets>>

\* the host's first render of the instance; an instance whose first render
\* throws is never mounted
FirstRender ==
  /\ phase = "constructed"
  /\ Rendered("firstRender", render(inst))
  /\ phase' = IF renderOut' = "threw" THEN "aborted" ELSE "rendered"
  /\ UNCHANGED <<cfg, store, inflight, pendingState, subscribeCalls,
                 unsubscribeCalls, mergeArgs, mergeRets>>

\* componentDidMount, lines 248-250
Mount ==
  /\ phase = "rendered"
  /\ Handled("mount", trySubscribe(inst))
  /\ subscribeCalls' = subscribeCalls + (IF inst'.unsubscribe /\ ~inst.unsubscribe THEN 1 ELSE 0)
  /\ phase' = "mounted"
  /\ observed' = IF shouldSubscribe THEN store ELSE observed
  /\ UNCHANGED <<cfg, store, inflight, unsubscribeCalls, mergeArgs, mergeRets>>

\* an update pass of the host after componentWillReceiveProps or setState:
\* shouldComponentUpdate, componentWillUpdate, render
UpdatePass(op, i) ==
  /\ IF shouldComponentUpdate(i)
       THEN Rendered(op, render(componentWillUpdate(i)))
       ELSE inst' = i /\ observed' = observed /\ PlainHistory(op, <<>>, FALSE)
  /\ pendingState' = NoState
  /\ UNCHANGED <<cfg, store, inflight, phase, subscribeCalls, unsubscribeCalls,
                 mergeArgs, mergeRets>>

\* the parent hands the instance new own props (a new object, possibly
\* shallow-equal to the current one); a pending setState is applied too
ReceiveProps(nextProps) ==
  /\ phase = "mounted"
  /\ UpdatePass("receiveProps",
       [ApplyState(componentWillReceiveProps(inst, nextProps)) EXCEPT !.props = nextProps])

\* the host applies the pending setState
FlushState ==
  /\ phase = "mounted"
  /\ pendingState # NoState
  /\ UpdatePass("flushState", ApplyState(inst))

\* forceUpdate(): a render pass without shouldComponentUpdate
ForceUpdate ==
  /\ phase = "mounted"
  /\ Rendered("forceUpdate", render(componentWillUpdate(ApplyState(inst))))
  /\ pendingState' = NoState
  /\ UNCHANGED <<cfg, store, inflight, phase, subscribeCalls, unsubscribeCalls,
                 mergeArgs, mergeRets>>

\* the host unmounts the instance; a pending setState is dropped
Unmount ==
  /\ phase = "mounted"
  /\ inst' = componentWillUnmount(inst)
  /\ unsubscribeCalls' = unsubscribeCalls + (IF inst.unsubscribe THEN 1 ELSE 0)
  /\ pendingState' = NoState
  /\ phase' = "unmounted"
  /\ PlainHistory("unmount", <<>>, FALSE)
  /\ UNCHANGED <<cfg, store, inflight, observed, subscribeCalls, mergeArgs, mergeRets>>

\* componentWillUnmount is called once more on the unmounted instance
UnmountAgain ==
  /\ phase = "unmounted"
  /\ inst' = componentWillUnmount(inst)
  /\ unsubscribeCalls' = unsubscribeCalls + (IF inst.unsubscribe THEN 1 ELSE 0)
  /\ PlainHistory("unmountAgain", <<>>, FALSE)
  /\ UNCHANGED <<cfg, store, inflight, pendingState, phase, observed,
                 subscribeCalls, mergeArgs, mergeRets>>

Next ==
  \/ \E s \in StoreRefs : StoreDispatch(s)
  \/ Notify
  \/ FirstRender
  \/ Mount
  \/ \E p \in OwnPropsSet : ReceiveProps(p)
  \/ FlushState
  \/ ForceUpdate
  \/ Unmount
  \/ UnmountAgain

Spec == Init /\ [][Next]_vars

\* ---- the default merge function on its own --------------------------------
\* the objects the two argument triples are drawn from: what the state
\* mappings, the dispatch mappings and the parent can hand over
MergeStateProps ==
  {defaultMapStateToProps(s) : s \in StoreRefs}
    \cup {StateObj(1, s, NullObj) : s \in StoreRefs}
MergeDispatchProps ==
  {defaultMapDispatchToProps(DispatchRef), [EmptyObj EXCEPT !["act"] = ActRef]}
MergeInputs == MergeStateProps \X MergeDispatchProps \X OwnPropsSet

\* two argument triples are chosen; no instance takes part
MergeInit ==
  /\ mergeArgs \in MergeInputs \X MergeInputs
  /\ mergeRets = <<>>
  /\ cfg = [pure |-> TRUE, mapState |-> "none", throws |-> FALSE,
            mapDispatch |-> "none", merge |-> "default"]
  /\ store = 0
  /\ inst = constructor(mergeArgs[1][3], store)
  /\ inflight = FALSE
  /\ pendingState = NoState
  /\ phase = "constructed"
  /\ lastOp = "construct"
  /\ calls = <<>>
  /\ renderOut = "none"
  /\ thrown = NoThrow
  /\ updateRequested = FALSE
  /\ afterRender = FALSE
  /\ observed = store
  /\ subscribeCalls = 0
  /\ unsubscribeCalls = 0

\* defaultMergeProps is applied to each of the two triples
ApplyDefaultMerge ==
  /\ mergeRets = <<>>
  /\ mergeRets' =
       <<defaultMergeProps(mergeArgs[1][1], mergeArgs[1][2], mergeArgs[1][3]),
         defaultMergeProps(mergeArgs[2][1], mergeArgs[2][2], mergeArgs[2][3])>>
  /\ UNCHANGED <<cfg, store, inflight, inst, pendingState, phase, lastOp, calls,
                 renderOut, thrown, updateRequested, afterRender, observed,
                 subscribeCalls, unsubscribeCalls, mergeArgs>>

MergeNext == ApplyDefaultMerge

MergeSpec == MergeInit /\ [][MergeNext]_vars

\* ---- the claims ----------------------------------------------------------
\* the state mapping in use once resolved: the factory-made one for a factory
ResolvedTarget == IF IsFactory(cfg.mapState) THEN "inner" ELSE "raw"

\* Merge(stateMapping(current store state, current OwnProps), DispatchProps,
\* current OwnProps)
ExpectedProps ==
  finalMergeProps(MapStateValue(ResolvedTarget, inst.props),
                  DispatchObj(DispatchRef, inst.props),
                  inst.props)

\* every notification and every requested host update has been processed
Quiescent == phase = "mounted" /\ ~inflight /\ pendingState = NoState

\* C1 (as claimed): with pure=true and a state mapping that does not throw,
\* once the instance is mounted and every notification and requested host
\* update has been processed, the props last handed to the view are
\* shallow-equal to Merge(stateMapping(store state, OwnProps), DispatchProps,
\* OwnProps).
C1_NoMissedUpdates ==
  (pure /\ ~cfg.throws /\ Quiescent)
    => shallowEqual(inst.renderedElement, ExpectedProps)

\* a render pass of an instance that has rendered before
RenderOps == {"receiveProps", "flushState", "forceUpdate"}

\* C2 (as claimed): with pure=true, every render pass after the first that
\* returns a new output object has MergedProps shallow-unequal to the
\* MergedProps of the previous output, with the default merge function as
\* well as with a custom one.
C2_NoRedundantRender ==
  [][(pure /\ lastOp' \in RenderOps /\ renderOut' = "new")
       => ~shallowEqual(inst'.renderedElement, inst.renderedElement)]_vars

\* C3: with pure=true, a render pass that directly follows a render pass
\* that returned an output (no own-props update, no notification in between)
\* invokes no mapping and no merge function, returns the previous output
\* object and leaves stateProps, dispatchProps and mergedProps as they are.
C3_NoOpPassIdempotent ==
  [][(pure /\ ReturnedOutput /\ lastOp' = "forceUpdate")
       => /\ calls' = <<>>
          /\ renderOut' = "same"
          /\ inst'.renderedElement = inst.renderedElement
          /\ inst'.stateProps = inst.stateProps
          /\ inst'.dispatchProps = inst.dispatchProps
          /\ inst'.mergedProps = inst.mergedProps]_vars

C3_Witness ==
  /\ pure /\ afterRender /\ lastOp = "forceUpdate"
  /\ renderOut = "same" /\ calls = <<>>
  /\ ~IsNull(inst.renderedElement)

\* C4: the instance holds a store listener iff it is mounted and a state
\* mapping was supplied; store.subscribe is called once per mount, and never
\* before mount or again after unmount.
C4_SubscriptionInvariant ==
  /\ inst.unsubscribe <=> (phase = "mounted" /\ shouldSubscribe)
  /\ subscribeCalls =
       IF shouldSubscribe /\ phase \in {"mounted", "unmounted"} THEN 1 ELSE 0

C4_Witness ==
  /\ phase = "unmounted" /\ shouldSubscribe /\ lastOp = "notify"
  /\ ~inst.unsubscribe /\ subscribeCalls = 1 /\ unsubscribeCalls = 1

\* C5: a notification delivered to the listener after unmount invokes no
\* mapping function, changes no field of the instance, requests no host
\* update and throws nothing.
C5_NotifyAfterUnmountInert ==
  [][(phase = "unmounted" /\ lastOp' = "notify")
       => /\ inst' = inst
          /\ calls' = <<>>
          /\ ~updateRequested'
          /\ pendingState' = pendingState
          /\ thrown' = NoThrow]_vars

C5_Witness ==
  /\ phase = "unmounted" /\ lastOp = "notify" /\ shouldSubscribe
  /\ store # inst.storeState
  /\ IsNull(inst.stateProps)

\* the listener is about to recompute stateProps eagerly and the mapping throws
EagerThrow ==
  /\ pure /\ shouldSubscribe /\ phase \in {"rendered", "mounted"}
  /\ store # inst.storeState
  /\ inst.doStatePropsDependOnOwnProps # "yes"
  /\ Throws(store)

\* C6: when the state mapping throws in the eager recomputation of the
\* notification handler, the handler returns normally, records the error and
\* requests a host update; the next render pass throws exactly that error
\* before invoking any mapping or merge function and clears it, and a render
\* pass throws a deferred error only if one is recorded.
C6_DeferredError ==
  [][/\ (EagerThrow /\ lastOp' \in {"notify", "mount"})
          => /\ thrown' = NoThrow
             /\ inst'.statePropsPrecalculationError = ErrorOf(store)
             /\ updateRequested'
             /\ pendingState' = store
     /\ (inst.statePropsPrecalculationError # NoError /\ lastOp' \in RenderOps)
          => /\ renderOut' = "threw"
             /\ thrown' = [kind |-> "deferred", err |-> inst.statePropsPrecalculationError]
             /\ calls' = <<>>
             /\ inst'.statePropsPrecalculationError = NoError
     /\ thrown'.kind = "deferred"
          => inst.statePropsPrecalculationError = thrown'.err]_vars

C6_Witness ==
  /\ lastOp \in RenderOps /\ thrown = [kind |-> "deferred", err |-> ErrorOf(BadRef)]
  /\ inst.statePropsPrecalculationError = NoError
  /\ calls = <<>>

\* the invocations of the resolved state mapping made by the last operation
ResolvedStateCalls ==
  {n \in 1..Len(calls) : calls[n].fn = "mapState" /\ calls[n].target = ResolvedTarget}

\* the arity rule for one invocation: no second argument for arity 1, the
\* current own props as second argument for arity 2
FollowsArity(c) ==
  IF StateArity(c.target) = 1
    THEN c.nargs = 1 /\ IsNull(c.arg2)
    ELSE c.nargs = 2 /\ c.arg2 = inst.props

\* the configuring invocation is the first one the first render pass makes
IsConfiguringCall(n) == lastOp = "firstRender" /\ n = 1

\* C7 (as claimed): every invocation of a resolved state mapping, the
\* configuring call included, is made without OwnProps when its arity is 1
\* and with the current OwnProps when its arity is 2.
C7_ArityAsClaimed ==
  \A n \in ResolvedStateCalls : FollowsArity(calls[n])

\* C7 (amended): every invocation of a resolved state mapping after the
\* configuring call follows the arity rule; the configuring call is always
\* made with (state, OwnProps), whatever the arity.
C7_ArityAfterConfiguring ==
  \A n \in ResolvedStateCalls :
    IF IsConfiguringCall(n) /\ calls[n].target = "raw"
      THEN calls[n].nargs = 2 /\ calls[n].arg2 = inst.props
      ELSE FollowsArity(calls[n])

C7_Witness ==
  /\ lastOp = "notify" /\ phase = "mounted"
  /\ \E n \in ResolvedStateCalls :
       StateArity(calls[n].target) = 1 /\ calls[n].nargs = 1

\* C8: with pure=true, a notification on a subscribed instance at which
\* store.getState() is the recorded reference invokes nothing, changes no
\* field of the instance and requests no host update.
C8_SameReferenceSkipped ==
  [][(pure /\ inst.unsubscribe /\ store = inst.storeState /\ lastOp' = "notify")
       => /\ inst' = inst
          /\ calls' = <<>>
          /\ ~updateRequested'
          /\ pendingState' = pendingState
          /\ renderOut' = "none"]_vars

C8_Witness ==
  /\ pure /\ phase = "mounted" /\ inst.unsubscribe /\ lastOp = "notify"
  /\ store = inst.storeState /\ calls = <<>> /\ ~updateRequested
  /\ pendingState = NoState

\* a notification with a new state reference on a subscribed instance whose
\* state mapping does not depend on own props and does not throw
EagerPrecheck ==
  /\ pure /\ inst.unsubscribe /\ store # inst.storeState
  /\ inst.doStatePropsDependOnOwnProps = "no"
  /\ ~Throws(store)

\* the stateProps the resolved state-only mapping yields for the store state
FreshStateProps == MapStateValue(inst.finalMapStateToProps, NullObj)

\* the last operation was a notification whose eager pre-check found
\* stateProps changed
PrecheckFoundChange ==
  /\ pure /\ lastOp = "notify" /\ updateRequested
  /\ inst.doStatePropsDependOnOwnProps = "no"
  /\ ~Throws(store)

\* what the eager pre-check does on a notification
PrecheckStep ==
  (EagerPrecheck /\ lastOp' = "notify")
    => /\ updateRequested' <=> ~shallowEqual(FreshStateProps, inst.stateProps)
       /\ shallowEqual(FreshStateProps, inst.stateProps)
            => /\ pendingState' = pendingState
               /\ inst'.hasStoreStateChanged = inst.hasStoreStateChanged
               /\ inst' = inst
       /\ ~shallowEqual(FreshStateProps, inst.stateProps)
            => /\ inst'.stateProps = FreshStateProps
               /\ inst'.hasStoreStateChanged
               /\ pendingState' = store

\* the render pass that follows a pre-check that found a change: one pass,
\* whose merged props are computed from the new stateProps
RerenderStep ==
  /\ renderOut' \in {"new", "same"}
  /\ inst'.stateProps = inst.stateProps
  /\ shallowEqual(inst'.mergedProps,
                  finalMergeProps(inst.stateProps, inst'.dispatchProps, inst'.props))
  /\ shallowEqual(inst'.renderedElement, inst'.mergedProps)
  /\ \A n \in 1..Len(calls') : calls'[n].fn # "mapState"
  /\ pendingState' = NoState
  /\ ~shouldComponentUpdate(inst')

\* C9 (as claimed): the notification requests a host update iff the
\* recomputed stateProps are shallow-unequal to the cached ones; if unequal,
\* the render pass that follows returns an output whose merged props hold the
\* new stateProps; if equal, nothing is requested and the flag is untouched.
C9_EagerPrecheckAsClaimed ==
  [][/\ PrecheckStep
     /\ (PrecheckFoundChange /\ lastOp' \in RenderOps) => RerenderStep]_vars

\* C9 (amended): as claimed, provided no error deferred from an earlier
\* notification is recorded when the render pass starts.
C9_EagerPrecheck ==
  [][/\ PrecheckStep
     /\ (PrecheckFoundChange /\ inst.statePropsPrecalculationError = NoError
           /\ lastOp' \in RenderOps) => RerenderStep]_vars

C9_Witness ==
  /\ pure /\ lastOp = "flushState" /\ renderOut = "new" /\ afterRender = FALSE
  /\ shouldSubscribe /\ inst.doStatePropsDependOnOwnProps = "no"
  /\ inst.storeState = store
  /\ inst.renderedElement["count"] = store \div 2
  /\ calls # <<>>

\* an own-props change on an instance with a state-only mapping and no store
\* change recorded
OwnPropsChangeOnly ==
  /\ pure /\ phase = "mounted" /\ ~IsNull(inst.renderedElement)
  /\ inst.doStatePropsDependOnOwnProps = "no"
  /\ ~inst.hasStoreStateChanged /\ pendingState = NoState
  /\ lastOp' = "receiveProps"
  /\ ~shallowEqual(inst'.props, inst.props)

\* the keys of own props that neither stateProps nor dispatchProps override
OwnKeysShown(i) == KeysOf(i.props) \ (KeysOf(i.stateProps) \cup KeysOf(i.dispatchProps))

ImpureUpdatePass ==
  /\ ~pure /\ ~cfg.throws
  /\ lastOp' \in {"receiveProps", "flushState"}

\* C11 (as claimed): with pure=false every update pass, whether started by an
\* own-props update or by a store notification and whether or not anything
\* changed, invokes the state mapping, the dispatch mapping and the merge
\* function again and returns a new output object.
C11_ImpureAlwaysRecomputes ==
  [][ImpureUpdatePass
       => /\ Invoked(calls', "mapState")
          /\ Invoked(calls', "mapDispatch")
          /\ Invoked(calls', "merge")
          /\ renderOut' = "new"]_vars

\* C12: when the state mapping is omitted, store.subscribe is never called
\* (the instance never holds a listener handle), and the StateProps cached
\* and used in every MergedProps are empty whatever the store state is.
C12_OmittedStateMapping ==
  cfg.mapState = "none"
    => /\ subscribeCalls = 0 /\ ~inst.unsubscribe /\ ~inflight
       /\ IsNull(inst.stateProps) \/ inst.stateProps = EmptyObj
       /\ ~IsNull(inst.mergedProps)
            => shallowEqual(inst.mergedProps,
                            finalMergeProps(EmptyObj, inst.dispatchProps, inst.props))

C12_Witness ==
  /\ cfg.mapState = "none" /\ phase = "mounted"
  /\ lastOp = "receiveProps" /\ renderOut = "new"
  /\ store # inst.storeState
  /\ inst.stateProps = EmptyObj /\ ~IsNull(inst.mergedProps)
  /\ subscribeCalls = 0

\* C13: when the dispatch mapping is omitted, after every render pass the
\* cached DispatchProps have exactly one key, "dispatch", whose value is the
\* store's dispatch function; before the first render they are unset.  The
\* instance itself makes no call other than to the two mappings and the merge
\* function.
C13_OmittedDispatchMapping ==
  cfg.mapDispatch = "none"
    => /\ ReturnedOutput => ~IsNull(inst.dispatchProps)
       /\ ~IsNull(inst.dispatchProps)
            => /\ KeysOf(inst.dispatchProps) = {"dispatch"}
               /\ inst.dispatchProps["dispatch"] = DispatchRef
       /\ \A n \in 1..Len(calls) : calls[n].fn \in {"mapState", "mapDispatch", "merge"}

C13_Witness ==
  /\ cfg.mapDispatch = "none" /\ phase = "mounted"
  /\ lastOp = "receiveProps" /\ renderOut = "new" /\ afterRender
  /\ inst.dispatchProps = [EmptyObj EXCEPT !["dispatch"] = DispatchRef]
  /\ inst.renderedElement["dispatch"] = DispatchRef

\* the cache of an instance: StateProps, DispatchProps, MergedProps, the four
\* dirty flags, the deferred error, the last render output and the resolved
\* mappings
CacheOf(i) ==
  <<i.stateProps, i.dispatchProps, i.mergedProps,
    i.haveOwnPropsChanged, i.hasStoreStateChanged,
    i.haveStatePropsBeenPrecalculated, i.statePropsPrecalculationError,
    i.renderedElement, i.finalMapStateToProps, i.finalMapDispatchToProps>>

\* C14: once the instance is unmounted, whatever state it was unmounted in
\* and however often componentWillUnmount has run since, the unsubscribe
\* function has been called exactly once if the instance had subscribed and
\* never otherwise, the instance holds no handle, and the cache equals its
\* value right after construction, no entry being left set.
C14_UnmountClean ==
  phase = "unmounted"
    => /\ unsubscribeCalls = subscribeCalls
       /\ unsubscribeCalls = (IF shouldSubscribe THEN 1 ELSE 0)
       /\ ~inst.unsubscribe
       /\ CacheOf(inst) = CacheOf(constructor(inst.props, inst.storeState))
       /\ IsNull(inst.stateProps) /\ IsNull(inst.dispatchProps)
       /\ IsNull(inst.mergedProps) /\ IsNull(inst.renderedElement)

C14_Witness ==
  /\ phase = "unmounted" /\ lastOp = "unmountAgain"
  /\ subscribeCalls = 1 /\ unsubscribeCalls = 1
  /\ inst.finalMapStateToProps = "null" /\ IsNull(inst.mergedProps)

\* what the resolved state mapping returns for store state s and own props p
StateMapOf(s, p) ==
  IF cfg.mapState = "none"
    THEN defaultMapStateToProps(s)
    ELSE StateObj(StateArity(ResolvedTarget), s, p)

CachesUnset(i) ==
  IsNull(i.stateProps) /\ IsNull(i.dispatchProps) /\ IsNull(i.mergedProps)

CachesSet(i) ==
  ~IsNull(i.stateProps) /\ ~IsNull(i.dispatchProps) /\ ~IsNull(i.mergedProps)

\* C15 (as claimed, in its weakest reading): with mappings that never throw,
\* in every state in which no host update is pending, after any sequence of
\* construction, render passes, notifications, own-props updates and unmount,
\* the cached StateProps, DispatchProps and MergedProps are all unset, or all
\* set with MergedProps shallow-equal to Merge(StateProps, DispatchProps,
\* OwnProps) and StateProps shallow-equal to what the state mapping returns
\* for the store state the instance observed last.
C15_CacheConsistent ==
  (~cfg.throws /\ pendingState = NoState)
    => \/ CachesUnset(inst)
       \/ /\ CachesSet(inst)
          /\ shallowEqual(inst.mergedProps,
                          finalMergeProps(inst.stateProps, inst.dispatchProps, inst.props))
          /\ shallowEqual(inst.stateProps, StateMapOf(observed, inst.props))

\* the two argument triples differ in at least one of the three objects
MergeInputsDiffer ==
  \/ ~shallowEqual(mergeArgs[1][1], mergeArgs[2][1])
  \/ ~shallowEqual(mergeArgs[1][2], mergeArgs[2][2])
  \/ ~shallowEqual(mergeArgs[1][3], mergeArgs[2][3])

\* C16 (as claimed): for all StateProps, DispatchProps and OwnProps, if at
\* least one of the three is shallow-unequal between two calls of the default
\* merge function, the two results are shallow-unequal.
C16_DefaultMergeDiffers ==
  (mergeRets # <<>> /\ MergeInputsDiffer)
    => ~shallowEqual(mergeRets[1], mergeRets[2])

\* the four dirty flags of the instance are clear
FlagsClear(i) ==
  /\ ~i.haveOwnPropsChanged /\ ~i.hasStoreStateChanged
  /\ ~i.haveStatePropsBeenPrecalculated
  /\ i.statePropsPrecalculationError = NoError

\* C17: after any render pass, whether it returned a new output, returned
\* the previous one, rethrew a deferred error or threw from a mapping, the
\* four dirty flags (own props changed, store state changed, StateProps
\* precalculated, precalculation error) are clear.
C17_FlagsResetByRender ==
  (lastOp \in AnyRenderOps /\ renderOut \in {"new", "same", "threw"})
    => FlagsClear(inst)

C17_Witness ==
  /\ lastOp = "flushState" /\ renderOut = "threw"
  /\ thrown = [kind |-> "deferred", err |-> ErrorOf(BadRef)]
  /\ FlagsClear(inst)

\* C18: with pure=true the dispatch mapping is invoked in the first render
\* pass that gets as far as DispatchProps, and in a later pass only when the
\* pass was started by an own-props update to a shallow-unequal value and the
\* resolved dispatch mapping depends on OwnProps (declared arity other than
\* 1); handling a store notification never invokes the dispatch mapping and
\* leaves DispatchProps unchanged, and so does any pass that does not invoke
\* the dispatch mapping.
C18_DispatchPropsRecomputation ==
  [][pure
       => /\ (lastOp' = "firstRender" /\ renderOut' # "threw")
               => Invoked(calls', "mapDispatch")
          /\ (Invoked(calls', "mapDispatch") /\ lastOp' # "firstRender")
               => /\ lastOp' = "receiveProps"
                  /\ ~shallowEqual(inst'.props, inst.props)
                  /\ inst.doDispatchPropsDependOnOwnProps = "yes"
                  /\ DispatchArity(inst.finalMapDispatchToProps) # 1
          /\ lastOp' \in {"notify", "mount"}
               => /\ ~Invoked(calls', "mapDispatch")
                  /\ inst'.dispatchProps = inst.dispatchProps
          /\ (lastOp' \in RenderOps /\ ~Invoked(calls', "mapDispatch"))
               => inst'.dispatchProps = inst.dispatchProps]_vars

C18_Witness ==
  /\ pure /\ lastOp = "receiveProps" /\ renderOut = "new"
  /\ cfg.mapDispatch = "arity2" /\ inst.doDispatchPropsDependOnOwnProps = "yes"
  /\ Invoked(calls, "mapDispatch")
  /\ inst.dispatchProps["act"] = ActRef + 2

\* the positions in the invocation log cs of calls of the raw mapping fn
RawCalls(cs, fn) == {n \in 1..Len(cs) : cs[n].fn = fn /\ cs[n].target = "raw"}

\* one step of an instance whose mapping fn is a factory, `final` being the
\* resolved mapping and `depends` the depends-on-OwnProps flag of the slot
\* before, `final2` and `depends2` after the step
FactoryStep(fn, final, depends, final2, depends2) ==
  /\ RawCalls(calls', fn) # {}
       => /\ Cardinality(RawCalls(calls', fn)) = 1
          /\ lastOp' = "firstRender" /\ phase = "constructed" /\ phase' # "constructed"
          /\ final = "null" /\ final2 = "inner"
  /\ (lastOp' = "firstRender" /\ renderOut' # "threw") => RawCalls(calls', fn) # {}
  /\ \A n \in 1..Len(calls') :
       (calls'[n].fn = fn /\ n \notin RawCalls(calls', fn))
          => calls'[n].target = "inner" /\ final2 = "inner"
  /\ (final # "null" /\ lastOp' \notin {"unmount", "unmountAgain"}) => final2 = final
  /\ depends # "undefined" => depends2 = depends
  /\ final2 = "inner" => depends2 = (IF cfg[fn] = "factory2" THEN "yes" ELSE "no")

\* C19: when a mapping is a factory, the raw function is invoked exactly once
\* between construction and unmount, in the one first render pass; the
\* function it returned is the one invoked for every later recomputation of
\* that slot and stays the resolved mapping until unmount; the slot's
\* depends-on-OwnProps flag is fixed, from the returned function's arity, at
\* that first call and never changes afterwards.
C19_FactoryConfiguredOnce ==
  [][/\ IsFactory(cfg.mapState)
          => FactoryStep("mapState",
                         inst.finalMapStateToProps, inst.doStatePropsDependOnOwnProps,
                         inst'.finalMapStateToProps, inst'.doStatePropsDependOnOwnProps)
     /\ IsFactory(cfg.mapDispatch)
          => FactoryStep("mapDispatch",
                         inst.finalMapDispatchToProps, inst.doDispatchPropsDependOnOwnProps,
                         inst'.finalMapDispatchToProps, inst'.doDispatchPropsDependOnOwnProps)]_vars

C19_Witness ==
  /\ cfg.mapState = "factory2" /\ cfg.mapDispatch = "factory2"
  /\ lastOp = "receiveProps" /\ renderOut = "new"
  /\ inst.finalMapStateToProps = "inner" /\ inst.finalMapDispatchToProps = "inner"
  /\ \E n \in 1..Len(calls) : calls[n].fn = "mapState" /\ calls[n].target = "inner"
  /\ \E n \in 1..Len(calls) : calls[n].fn = "mapDispatch" /\ calls[n].target = "inner"
  /\ RawCalls(calls, "mapState") = {} /\ RawCalls(calls, "mapDispatch") = {}

\* C20 (as claimed): with pure=true and a state mapping that does not depend
\* on OwnProps and does not throw, in every state of a mounted instance with
\* no host update pending, the store state recorded by the instance maps
\* under the state mapping to StateProps shallow-equal to the cached ones.
C20_RecordedStateAgrees ==
  (/\ pure /\ ~cfg.throws /\ phase = "mounted" /\ pendingState = NoState
   /\ shouldSubscribe /\ inst.doStatePropsDependOnOwnProps = "no")
    => shallowEqual(StateMapOf(inst.storeState, NullObj), inst.stateProps)

====
